---- MODULE Spec2Model ----
(***************************************************************************)
(* Ditch The Bell: the poll cycle of Feed.fetch_new (feed.py), the SQLite  *)
(* dedup cache (cache.py), the notification dispatch                       *)
(* (handlers/notification_handler.py) and the timer that drives the cycle  *)
(* (app.py).                                                               *)
(*                                                                         *)
(* Time is a natural number of clock units; SEARCH_INTERVAL is one unit,   *)
(* and a cycle is short against it (every request is bounded by            *)
(* HTTP_REQUEST_TIMEOUT): the clock advances between cycles, and every     *)
(* datetime.utcnow() of one cycle reads the same value.                    *)
(* Strings that the code searches with `in` are sequences of characters.   *)
(***************************************************************************)
EXTENDS Integers, Sequences, FiniteSets, TLC

\* ------------------------------------------------------------------ bounds
\* the clock's last value; the entries of a feed handed to _process_feed on
\* its own; the entries of one source's feed in a cycle (a cycle merges the
\* feeds of all sources)
MaxTime == 3
MaxFeedLen == 2
MaxCycleFeedLen == 1
\* the patterns of one list of a profile
MaxPatterns == 2
\* the candidates of one entry's media_thumbnail
MaxThumbnails == 3
\* the days of an entry's age
MaxDays == 2
\* the strings that follow the URL on a line of the urls file
MaxWords == 2

Sources == {1, 2}
Links == {"a", "b"}
Dates == 0..MaxTime
FloodCaps == {0, 1}

\* offsets from UTC, in clock units, of the machine's zone and of the zones
\* feeds stamp their entries with
UTC == 0
Offsets == {-1, UTC, 1}
UTCStamps == [l \in Links |-> UTC]

\* ------------------------------------------------------------------ config
\* config.SEARCH_WINDOW and config.SEARCH_INTERVAL, in clock units
SEARCH_WINDOW == 2
SEARCH_INTERVAL == 1

None == "None"
\* float('inf') at line 196, an absent URL
Infinity == -1
NoUrl == << >>
DEFAULT_THUMBNAIL_PATH == "default/thumbnail.png"
TMP_THUMBNAIL_PATH == "tmp/dtbell/thumbnail_"

\* config.profiles: the keys of a profile that feed.py reads
profiles ==
    [default |-> [require_patterns |-> << >>,
                  exclude_patterns |-> << >>,
                  entry_age |-> FALSE,
                  download_thumbnails |-> TRUE],
     news    |-> [require_patterns |-> << <<"x">> >>,
                  exclude_patterns |-> << <<"w">> >>,
                  entry_age |-> FALSE,
                  download_thumbnails |-> FALSE]]

\* config.urls: one url_data per configured source
urls ==
    [s \in Sources |->
        IF s = 1 THEN [url |-> "http://one", profile_name |-> "default"]
                 ELSE [url |-> "http://two", profile_name |-> "news"]]

\* ------------------------------------------------------- what a feed serves
\* entry.get('published') or entry.get('updated') is empty; dateutil cannot parse it
Missing == -1
Unparseable == -2

TitleOf(l) == IF l = "a" THEN <<"x", "y">> ELSE <<"z">>
AuthorOf(l) == IF l = "a" THEN << >> ELSE <<"w">>
ThumbsOf(l) == IF l = "a" THEN << >>
               ELSE << [width |-> 2, height |-> 2, url |-> <<"http://img/b">>] >>

\* a raw entry of feedparser: has_keys is `'title' in entry and 'link' in entry`,
\* has_author is `'author' in entry`
Raw(l, p, k) ==
    [has_keys |-> k, link |-> l, published |-> p, title |-> TitleOf(l),
     has_author |-> (l # "a"), author |-> AuthorOf(l),
     media_thumbnail |-> ThumbsOf(l)]

RawEntries ==
    {Raw(l, p, TRUE) : l \in Links, p \in Dates \cup {Missing, Unparseable}}
        \cup {Raw("a", 0, FALSE)}

SeqsUpTo(S, n) == UNION {[1..k -> S] : k \in 0..n}

Feeds(n) == SeqsUpTo(RawEntries, n)

\* the outcomes of session.get + raise_for_status + response.text
ResponsesOf(n) ==
    {[status |-> "ok", entries |-> f] : f \in Feeds(n)}
        \cup {[status |-> st, entries |-> << >>] :
                st \in {"ClientResponseError", "TimeoutError",
                        "ClientConnectionError"}}

Responses == ResponsesOf(MaxFeedLen)
CycleResponses == ResponsesOf(MaxCycleFeedLen)

\* --------------------------------------------------------------- the state
VARIABLES
    now,                \* the clock
    timer_due,          \* when the GLib timeout fires next
    pc,                 \* where fetch_new stands
    new_cache,          \* config.new_cache
    FLOOD_CAP,          \* config.FLOOD_CAP
    cache,              \* the rows of table feed_entries
    new_entries_by_url, \* per source: exc is "pending", None (entries is the
                        \* list the task returned) or the exception it raised
    all_new_entries,    \* fetch_new's list
    sent,               \* the calls of send_notification in this cycle
    cold_cycle,         \* config.new_cache when this cycle began
    store_error,        \* a cache operation raised in this cycle
    failed_sources,     \* the sources whose request failed in this cycle
    feed_in,            \* FilterSpec: the input of the _process_feed under study
    arg,                \* the specifications of one function: what it is called
    ret,                \* with beyond the state above, and what it returned
                        \* (PruneSpec: the rows it found)
    running,            \* the calls of fetch_new that have not yet returned
    phases,             \* the steps the cycle begun last has entered, in order
    add_phases,         \* the steps in which that cycle called cache_manager.add
    delivered,          \* CrossCycleSpec: the links for which send_notification
                        \* returned an id in the cycles that have returned
    completed           \* GatherSpec: the sources whose task has finished, in
                        \* the order in which they finished, while the results
                        \* are in scope

vars == <<now, timer_due, pc, new_cache, FLOOD_CAP, cache, new_entries_by_url,
          all_new_entries, sent, cold_cycle, store_error, failed_sources, feed_in, arg, ret,
          running, phases, add_phases, delivered, completed>>

Pending == "pending"
StoreError == "sqlite3.Error"
ParserError == "ParserError"
NotRun == [exc |-> Pending, entries |-> << >>]
NoArg == << >>
NoInput == [source |-> 0, response |-> [status |-> "ok", entries |-> << >>],
            fail_at |-> 0]

\* ------------------------------------------------------------ CacheManager
\* seen without its return statement
seen_in_returns_none(c, link) == FALSE

\* SELECT EXISTS(SELECT 1 FROM feed_entries WHERE link=?)
seen_in(c, link) == \E r \in c : r.link = link

\* INSERT without OR IGNORE on a table without the key
add_to_plain_insert(c, entry) ==
    c \cup {[link |-> entry.link, publish_date |-> entry.publish_date]}

\* INSERT OR REPLACE: the row of the link is overwritten
add_to_or_replace(c, entry) ==
    {r \in c : r.link # entry.link}
        \cup {[link |-> entry.link, publish_date |-> entry.publish_date]}

\* INSERT OR IGNORE INTO feed_entries (link, publish_date): link is PRIMARY KEY
add_to(c, entry) ==
    IF seen_in(c, entry.link) THEN c
    ELSE c \cup {[link |-> entry.link, publish_date |-> entry.publish_date]}

\* The column publish_date holds the text of an aware datetime: the wall clock
\* of the zone the feed stamped the entry with (a stamp without a zone is taken
\* as UTC, feed.py line 110). zone[link] is that zone's offset from UTC.
Stamp(r, zone) == r.publish_date + zone[r.link]

\* DELETE FROM feed_entries WHERE publish_date < cutoff_date, a comparison of
\* texts; cutoff_date is datetime.now() - SEARCH_WINDOW, the wall clock of the
\* machine's zone (local_now). Skipped on a new cache.
prune_old_of(c, cold, local_now, zone) ==
    IF cold THEN c
    ELSE LET cutoff_date == local_now - SEARCH_WINDOW
         IN {r \in c : ~(Stamp(r, zone) < cutoff_date)}

\* ------------------------------------------------------------------- Feed
IsSubstring(p, t) ==
    \E i \in 0..(Len(t) - Len(p)) : SubSeq(t, i + 1, i + Len(p)) = p

\* `pattern in entry.title`
PatternInTitleOnly(p, title, author) == IsSubstring(p, title)

\* `pattern in entry.title or pattern in entry.author`
PatternIn(p, title, author) == IsSubstring(p, title) \/ IsSubstring(p, author)

AnyPattern(ps, title, author) ==
    \E i \in 1..Len(ps) : PatternIn(ps[i], title, author)

\* lines 116-133 of _process_feed; profile.get('require_patterns') that is None
\* or empty is the empty sequence
PassesPatterns(profile, title, author) ==
    /\ Len(profile.require_patterns) > 0
          => AnyPattern(profile.require_patterns, title, author)
    /\ Len(profile.exclude_patterns) > 0
          => ~AnyPattern(profile.exclude_patterns, title, author)

\* thumbnail['width'] or thumbnail['height'] of a descriptor without that key
\* (a width or height of MissingKey): the KeyError leaves the function
MissingKey == -1
KeyError == <<"KeyError">>

Favicon(link) == <<"http", "://", link, "/favicon.ico">>

\* `width < smallest_width or height < smallest_height`
RECURSIVE SmallestThumbnailEither(_, _, _, _, _)
SmallestThumbnailEither(thumbnails, i, smallest_width, smallest_height, thumbnail_url) ==
    IF i > Len(thumbnails) THEN thumbnail_url
    ELSE LET width == thumbnails[i].width
             height == thumbnails[i].height
         IN IF width = MissingKey \/ height = MissingKey THEN KeyError
            ELSE IF width = 0 \/ height = 0
            THEN SmallestThumbnailEither(thumbnails, i + 1, smallest_width,
                                         smallest_height, thumbnail_url)
            ELSE IF (smallest_width = Infinity \/ width < smallest_width)
                    \/ (smallest_height = Infinity \/ height < smallest_height)
                 THEN SmallestThumbnailEither(thumbnails, i + 1, width, height,
                                              thumbnails[i].url)
                 ELSE SmallestThumbnailEither(thumbnails, i + 1, smallest_width,
                                              smallest_height, thumbnail_url)

RECURSIVE SmallestThumbnail(_, _, _, _, _)
SmallestThumbnail(thumbnails, i, smallest_width, smallest_height, thumbnail_url) ==
    IF i > Len(thumbnails) THEN thumbnail_url
    ELSE LET width == thumbnails[i].width
             height == thumbnails[i].height
         IN IF width = MissingKey \/ height = MissingKey THEN KeyError
            ELSE IF width = 0 \/ height = 0
            THEN SmallestThumbnail(thumbnails, i + 1, smallest_width,
                                   smallest_height, thumbnail_url)
            ELSE IF (smallest_width = Infinity \/ width < smallest_width)
                    /\ (smallest_height = Infinity \/ height < smallest_height)
                 THEN SmallestThumbnail(thumbnails, i + 1, width, height,
                                        thumbnails[i].url)
                 ELSE SmallestThumbnail(thumbnails, i + 1, smallest_width,
                                        smallest_height, thumbnail_url)

_resolve_thumbnail_url(entry) ==
    LET thumbnail_url == SmallestThumbnail(entry.media_thumbnail, 1, Infinity,
                                           Infinity, NoUrl)
    IN IF thumbnail_url = KeyError THEN KeyError
       ELSE IF thumbnail_url = NoUrl THEN Favicon(entry.link)
       ELSE thumbnail_url

\* the dictionary built at lines 135-151 (the launcher, timeout, urgency,
\* transience and persist_on_click keys are copied from the profile and are
\* read by nothing in the cycle)
NewEntry(entry, author, publish_date, profile) ==
    [author |-> author,
     title |-> entry.title,
     link |-> entry.link,
     thumbnail_url |-> IF profile.download_thumbnails
                       THEN _resolve_thumbnail_url(entry) ELSE NoUrl,
     thumbnail_path |-> None,
     publish_date |-> publish_date]

\* entry_age <= config.SEARCH_WINDOW
InWindowInclusive(t, publish_date) == t - publish_date <= SEARCH_WINDOW

\* entry_age < config.SEARCH_WINDOW
InWindow(t, publish_date) == t - publish_date < SEARCH_WINDOW

\* the loop of _process_feed over entries[i..]; fail_at is the entry at which
\* cache_manager.seen raises, 0 when the store works
\* entry.get('author', "???")
UnknownAuthor == <<"?", "?", "?">>

RECURSIVE ProcessEntries(_, _, _, _, _, _, _)
ProcessEntries(entries, i, new_entries, t, c, profile, fail_at) ==
    IF i > Len(entries) THEN [exc |-> None, entries |-> new_entries]
    ELSE LET entry == entries[i]
             rest(acc) == ProcessEntries(entries, i + 1, acc, t, c, profile, fail_at)
         IN IF ~entry.has_keys THEN rest(new_entries)
            ELSE IF entry.published = Missing THEN rest(new_entries)
            ELSE IF entry.published = Unparseable
                 THEN [exc |-> ParserError, entries |-> << >>]
            ELSE LET author == IF entry.has_author THEN entry.author
                               ELSE UnknownAuthor
                     publish_date == entry.published
                 IN IF ~InWindow(t, publish_date) THEN rest(new_entries)
                    ELSE IF fail_at = i
                         THEN [exc |-> StoreError, entries |-> << >>]
                    ELSE IF seen_in(c, entry.link) THEN rest(new_entries)
                    ELSE IF ~PassesPatterns(profile, entry.title, author)
                         THEN rest(new_entries)
                    ELSE IF /\ profile.download_thumbnails
                            /\ _resolve_thumbnail_url(entry) = KeyError
                         THEN [exc |-> "KeyError", entries |-> << >>]
                    ELSE rest(Append(new_entries,
                                     NewEntry(entry, author, publish_date, profile)))

\* _process_feed: what gather records for the task
_process_feed(response, url_data, t, c, fail_at) ==
    IF response.status = "ClientResponseError" THEN [exc |-> None, entries |-> << >>]
    ELSE IF response.status # "ok" THEN [exc |-> response.status, entries |-> << >>]
    ELSE ProcessEntries(response.entries, 1, << >>, t, c,
                        profiles[url_data.profile_name], fail_at)

\* isinstance(new_entries, Exception)
IsException(r) == r.exc \notin {None, Pending}

\* gather without return_exceptions: one failed task fails the batch
RECURSIVE ExtendAllOrNothing(_, _)
ExtendAllOrNothing(results, s) ==
    IF \E x \in Sources : IsException(results[x]) THEN << >>
    ELSE IF s \notin Sources THEN << >>
    ELSE results[s].entries \o ExtendAllOrNothing(results, s + 1)

\* asyncio.as_completed: the results in the order in which the tasks finished
RECURSIVE ExtendAsCompleted(_, _)
ExtendAsCompleted(results, s) ==
    IF s > Len(completed) THEN << >>
    ELSE (IF IsException(results[completed[s]]) THEN << >>
          ELSE results[completed[s]].entries)
            \o ExtendAsCompleted(results, s + 1)

\* lines 75-78: the results that are no exception, concatenated in url order
\* (gather returns the results in the order of the tasks it was given)
RECURSIVE Extend(_, _)
Extend(results, s) ==
    IF s \notin Sources THEN << >>
    ELSE (IF IsException(results[s]) THEN << >> ELSE results[s].entries)
            \o Extend(results, s + 1)

\* the cold-start filter with the long window
InIntervalUsesWindow(t, publish_date) == t - publish_date < SEARCH_WINDOW

\* entry_age < config.SEARCH_INTERVAL
InInterval(t, publish_date) == t - publish_date < SEARCH_INTERVAL

\* the loop of _handle_new_cache over entries[i..]; fail_at is the entry at
\* which cache_manager.add raises, 0 when the store works
RECURSIVE HandleLoop(_, _, _, _, _, _)
HandleLoop(entries, i, new_entries, c, t, fail_at) ==
    IF i > Len(entries)
    THEN [raised |-> FALSE, entries |-> new_entries, cache |-> c, new_cache |-> FALSE]
    ELSE LET kept == IF InInterval(t, entries[i].publish_date)
                     THEN Append(new_entries, entries[i]) ELSE new_entries
         IN IF fail_at = i
            THEN [raised |-> TRUE, entries |-> kept, cache |-> c, new_cache |-> TRUE]
            ELSE HandleLoop(entries, i + 1, kept, add_to(c, entries[i]), t, fail_at)

\* config.new_cache = False inside the loop: nothing merged, nothing cleared
_handle_new_cache_clears_in_loop(entries, cold, c, t, fail_at) ==
    IF ~cold
    THEN [raised |-> FALSE, entries |-> entries, cache |-> c, new_cache |-> FALSE]
    ELSE IF entries = << >>
         THEN [raised |-> FALSE, entries |-> entries, cache |-> c, new_cache |-> TRUE]
         ELSE HandleLoop(entries, 1, << >>, c, t, fail_at)

_handle_new_cache(entries, cold, c, t, fail_at) ==
    IF ~cold
    THEN [raised |-> FALSE, entries |-> entries, cache |-> c, new_cache |-> FALSE]
    ELSE HandleLoop(entries, 1, << >>, c, t, fail_at)

\* sorted(all_new_entries, key=publish_date): a stable insertion sort
RECURSIVE Insert(_, _)
Insert(sorted, e) ==
    IF sorted = << >> THEN <<e>>
    ELSE IF sorted[Len(sorted)].publish_date <= e.publish_date
         THEN Append(sorted, e)
         ELSE Append(Insert(SubSeq(sorted, 1, Len(sorted) - 1), e),
                     sorted[Len(sorted)])

\* line 80 left out
SortedByDateSkipped(entries) == entries

RECURSIVE SortedByDate(_)
SortedByDate(entries) ==
    IF entries = << >> THEN << >>
    ELSE Insert(SortedByDate(SubSeq(entries, 1, Len(entries) - 1)),
                entries[Len(entries)])

\* len(new_entries) < config.FLOOD_CAP or config.FLOOD_CAP == 0
UnderFloodCapStrict(n, cap) == n < cap \/ cap = 0

\* len(new_entries) <= config.FLOOD_CAP or config.FLOOD_CAP == 0
UnderFloodCap(n, cap) == n <= cap \/ cap = 0

\* what one thumbnail request can end in; NoRequest where none is made
NoRequest == "no_request"
DownloadOutcomes ==
    {"image", "ClientResponseError", "no_content_type", "unknown_mime", "TimeoutError",
     "ClientConnectionError"}

\* _download_thumbnail: thumbnail_url is popped; a request that raises anything
\* but ClientResponseError leaves the entry without a thumbnail_path
_download_thumbnail(entry, outcome) ==
    [entry EXCEPT
        !.thumbnail_url = NoUrl,
        !.thumbnail_path =
            IF entry.thumbnail_url = NoUrl THEN DEFAULT_THUMBNAIL_PATH
            ELSE IF outcome = "image" THEN TMP_THUMBNAIL_PATH
            ELSE IF outcome \in {"TimeoutError", "ClientConnectionError"} THEN None
            ELSE DEFAULT_THUMBNAIL_PATH]

\* the entries for which _download_thumbnail calls session.get
Requests(new_entries, cap) ==
    IF UnderFloodCap(Len(new_entries), cap)
    THEN {i \in DOMAIN new_entries : new_entries[i].thumbnail_url # NoUrl}
    ELSE {}

_download_thumbnails(new_entries, cap, outcomes) ==
    IF new_entries = << >> THEN new_entries
    ELSE IF UnderFloodCap(Len(new_entries), cap)
         THEN [i \in 1..Len(new_entries) |->
                  _download_thumbnail(new_entries[i],
                                      IF i \in DOMAIN outcomes THEN outcomes[i]
                                      ELSE NoRequest)]
         ELSE new_entries

\* ---------------------------------------------------- notification_handler
NoEntry ==
    [author |-> << >>, title |-> << >>, link |-> "", thumbnail_url |-> NoUrl,
     thumbnail_path |-> None, publish_date |-> 0]

\* one call of send_notification: the entry, or the summary 'count new entries!',
\* and the notification_id the service returned (0 is falsy)
EntryCall(entry, id) ==
    [summary |-> FALSE, count |-> 0, entry |-> entry, notification_id |-> id]
SummaryCall(n, id) ==
    [summary |-> TRUE, count |-> n, entry |-> NoEntry, notification_id |-> id]

\* cache_manager.add outside `if notification_id:`
RECURSIVE SendLoopAddsAlways(_, _, _, _, _, _)
SendLoopAddsAlways(new_entries, i, c, calls, ids, fail_at) ==
    IF i > Len(new_entries) THEN [raised |-> FALSE, cache |-> c, sent |-> calls]
    ELSE LET call == EntryCall(new_entries[i], ids[i])
         IN IF fail_at = i
            THEN [raised |-> TRUE, cache |-> c, sent |-> Append(calls, call)]
            ELSE SendLoopAddsAlways(new_entries, i + 1, add_to(c, new_entries[i]),
                                    Append(calls, call), ids, fail_at)

\* the loop of send_notifications over new_entries[i..]; ids are the
\* notification ids, fail_at the entry at which cache_manager.add raises
RECURSIVE SendLoop(_, _, _, _, _, _)
SendLoop(new_entries, i, c, calls, ids, fail_at) ==
    IF i > Len(new_entries) THEN [raised |-> FALSE, cache |-> c, sent |-> calls]
    ELSE LET call == EntryCall(new_entries[i], ids[i])
         IN IF ids[i] # 0
            THEN IF fail_at = i
                 THEN [raised |-> TRUE, cache |-> c, sent |-> Append(calls, call)]
                 ELSE SendLoop(new_entries, i + 1, add_to(c, new_entries[i]),
                               Append(calls, call), ids, fail_at)
            ELSE SendLoop(new_entries, i + 1, c, Append(calls, call), ids, fail_at)

\* the flood branch records the entries it summarises
send_notifications_records_flood(new_entries, cap, c, ids, fail_at) ==
    IF new_entries = << >> THEN [raised |-> FALSE, cache |-> c, sent |-> << >>]
    ELSE IF UnderFloodCap(Len(new_entries), cap)
         THEN SendLoop(new_entries, 1, c, << >>, ids, fail_at)
         ELSE [raised |-> FALSE,
               cache |-> HandleLoop(new_entries, 1, << >>, c, 0, 0).cache,
               sent |-> << SummaryCall(Len(new_entries), ids[1]) >>]

send_notifications(new_entries, cap, c, ids, fail_at) ==
    IF new_entries = << >> THEN [raised |-> FALSE, cache |-> c, sent |-> << >>]
    ELSE IF UnderFloodCap(Len(new_entries), cap)
         THEN SendLoop(new_entries, 1, c, << >>, ids, fail_at)
         ELSE [raised |-> FALSE, cache |-> c,
               sent |-> << SummaryCall(Len(new_entries), ids[1]) >>]

\* ------------------------------------------------------------------- Init
Init ==
    /\ now \in 0..MaxTime
    /\ timer_due = now + SEARCH_INTERVAL
    /\ pc = "Start"
    /\ new_cache \in BOOLEAN
    /\ FLOOD_CAP \in FloodCaps
    /\ cache = {}
    /\ new_entries_by_url = [s \in Sources |-> NotRun]
    /\ all_new_entries = << >>
    /\ sent = << >>
    /\ cold_cycle = FALSE
    /\ store_error = FALSE
    /\ failed_sources = {}
    /\ feed_in = NoInput
    /\ arg = NoArg
    /\ ret = NoArg
    /\ running = 0
    /\ phases = << >>
    /\ add_phases = {}
    /\ delivered = {}
    /\ completed = << >>

\* --------------------------------------------------------------- the clock
Tick ==
    /\ pc = "Idle"
    /\ now < MaxTime
    /\ now' = now + 1
    /\ UNCHANGED <<timer_due, pc, new_cache, FLOOD_CAP, cache, new_entries_by_url,
                   all_new_entries, sent, cold_cycle, store_error, failed_sources,
                   feed_in, arg, ret,
                   running, phases, add_phases, delivered, completed>>

\* ---------------------------------------------------------------- fetch_new
\* pc = "Raised": an exception left fetch_new and its locals are gone; what the
\* caller does with the exception is outside the cycle
\* lines 58-66: prune_old, then one task per url
BeginCycle(store_ok) ==
    /\ cold_cycle' = new_cache
    /\ all_new_entries' = << >>
    /\ sent' = << >>
    /\ new_entries_by_url' = [s \in Sources |-> NotRun]
    /\ IF store_ok
       THEN /\ cache' = prune_old_of(cache, new_cache, now + UTC, UTCStamps)
            /\ pc' = "Fetching"
            /\ store_error' = FALSE
       ELSE /\ cache' = cache
            /\ pc' = "Raised"
            /\ store_error' = TRUE
    /\ failed_sources' = {}
    /\ running' = IF store_ok THEN running + 1 ELSE running
    /\ phases' = IF store_ok THEN <<"Pruning", "Fetching">> ELSE <<"Pruning">>
    /\ add_phases' = {}
    /\ completed' = << >>
    /\ UNCHANGED <<now, new_cache, FLOOD_CAP, feed_in, arg, ret, delivered>>

\* DitchTheBell.start: the timeout is registered, then the startup search
Start ==
    /\ pc = "Start"
    /\ \E SEARCH_ON_STARTUP \in BOOLEAN :
          IF SEARCH_ON_STARTUP
          THEN \E store_ok \in BOOLEAN : BeginCycle(store_ok) /\ UNCHANGED timer_due
          ELSE /\ pc' = "Idle"
               /\ UNCHANGED <<now, timer_due, new_cache, FLOOD_CAP, cache,
                              new_entries_by_url, all_new_entries, sent,
                              cold_cycle, store_error, failed_sources, feed_in,
                              arg, ret, running, phases, add_phases, delivered, completed>>

\* a callback that only schedules the coroutine and returns to the main loop:
\* the timeout that expires while a cycle runs is dispatched at once
TimerTickWhileRunning ==
    /\ pc \notin {"Start", "Raised"}
    /\ (pc = "Idle" => now >= timer_due)
    /\ timer_due' = now + SEARCH_INTERVAL
    /\ \E store_ok \in BOOLEAN : BeginCycle(store_ok)

\* the GLib timeout callback: lambda: asyncio.run(feed.fetch_new()) or True.
\* asyncio.run returns when fetch_new has returned, and the main loop that
\* dispatches the callback is the thread it blocks; the loop starts running
\* (line 79) after the startup search (line 78) has returned
TimerTick ==
    /\ pc = "Idle"
    /\ now >= timer_due
    /\ timer_due' = now + SEARCH_INTERVAL
    /\ \E store_ok \in BOOLEAN : BeginCycle(store_ok)

\* a fetch task that records the entries it returns
ProcessFeedAdds(s) ==
    /\ pc = "Fetching"
    /\ new_entries_by_url[s].exc = Pending
    /\ \E response \in CycleResponses, fail_at \in 0..MaxCycleFeedLen :
          LET r == _process_feed(response, urls[s], now, cache, fail_at)
          IN /\ new_entries_by_url' = [new_entries_by_url EXCEPT ![s] = r]
             /\ cache' = HandleLoop(r.entries, 1, << >>, cache, now, 0).cache
             /\ add_phases' = IF r.entries # << >>
                              THEN add_phases \cup {"Fetching"} ELSE add_phases
             /\ store_error' = (store_error \/ r.exc = StoreError)
             /\ failed_sources' = IF response.status = "ok" THEN failed_sources
                                  ELSE failed_sources \cup {s}
    /\ UNCHANGED <<now, timer_due, pc, new_cache, FLOOD_CAP,
                   all_new_entries, sent, cold_cycle, feed_in, arg, ret,
                   running, phases, delivered, completed>>

\* one task of the gather: _process_feed(session, url_data)
ProcessFeed(s) ==
    /\ pc = "Fetching"
    /\ new_entries_by_url[s].exc = Pending
    /\ \E response \in CycleResponses, fail_at \in 0..MaxCycleFeedLen :
          LET r == _process_feed(response, urls[s], now, cache, fail_at)
          IN /\ new_entries_by_url' = [new_entries_by_url EXCEPT ![s] = r]
             /\ store_error' = (store_error \/ r.exc = StoreError)
             /\ failed_sources' = IF response.status = "ok" THEN failed_sources
                                  ELSE failed_sources \cup {s}
    /\ UNCHANGED <<now, timer_due, pc, new_cache, FLOOD_CAP, cache,
                   all_new_entries, sent, cold_cycle, feed_in, arg, ret,
                   running, phases, add_phases, delivered, completed>>

\* a wait that returns at the first finished task instead of gather
MergeFirstCompleted ==
    /\ pc = "Fetching"
    /\ \E s \in Sources : new_entries_by_url[s].exc # Pending
    /\ LET merged == Extend(new_entries_by_url, 1)
       IN \E fail_at \in 0..Len(merged) :
             LET r == _handle_new_cache(merged, new_cache, cache, now, fail_at)
             IN /\ (fail_at # 0 => r.raised)
                /\ cache' = r.cache
                /\ new_cache' = (new_cache /\ r.new_cache)
                /\ store_error' = (store_error \/ r.raised)
                /\ running' = IF r.raised THEN running - 1 ELSE running
                /\ add_phases' = IF new_cache /\ merged # << >>
                                 THEN add_phases \cup {"Merging"} ELSE add_phases
                /\ IF r.raised
                   THEN /\ pc' = "Raised"
                        /\ all_new_entries' = << >>
                        /\ new_entries_by_url' = [s \in Sources |-> NotRun]
                        /\ failed_sources' = {}
                        /\ completed' = << >>
                   ELSE /\ pc' = "Merged"
                        /\ all_new_entries' = r.entries
                        /\ UNCHANGED <<new_entries_by_url, failed_sources,
                                       completed>>
    /\ phases' = Append(phases, "Merging")
    /\ UNCHANGED <<now, timer_due, FLOOD_CAP, sent, cold_cycle, feed_in, arg, ret,
                   delivered>>

\* lines 67-79: gather has returned every task's result; merge, _handle_new_cache.
\* gather(return_exceptions=True) hands a task's exception back as its result,
\* asyncio.TimeoutError included, and nothing else bounds the wait (no wait_for):
\* the handler of lines 72-74 never runs.
Merge ==
    /\ pc = "Fetching"
    /\ \A s \in Sources : new_entries_by_url[s].exc # Pending
    /\ LET merged == Extend(new_entries_by_url, 1)
       IN \E fail_at \in 0..Len(merged) :
             LET r == _handle_new_cache(merged, new_cache, cache, now, fail_at)
             IN /\ (fail_at # 0 => r.raised)
                /\ cache' = r.cache
                /\ new_cache' = (new_cache /\ r.new_cache)
                /\ store_error' = (store_error \/ r.raised)
                /\ running' = IF r.raised THEN running - 1 ELSE running
                /\ add_phases' = IF new_cache /\ merged # << >>
                                 THEN add_phases \cup {"Merging"} ELSE add_phases
                /\ IF r.raised
                   THEN /\ pc' = "Raised"
                        /\ all_new_entries' = << >>
                        /\ new_entries_by_url' = [s \in Sources |-> NotRun]
                        /\ failed_sources' = {}
                        /\ completed' = << >>
                   ELSE /\ pc' = "Merged"
                        /\ all_new_entries' = r.entries
                        /\ UNCHANGED <<new_entries_by_url, failed_sources,
                                       completed>>
    /\ phases' = Append(phases, "Merging")
    /\ UNCHANGED <<now, timer_due, FLOOD_CAP, sent, cold_cycle, feed_in, arg, ret,
                   delivered>>

\* lines 80-81
Sort ==
    /\ pc = "Merged"
    /\ all_new_entries' = SortedByDate(all_new_entries)
    /\ pc' = "Sorted"
    /\ phases' = Append(phases, "Sort")
    /\ UNCHANGED <<now, timer_due, new_cache, FLOOD_CAP, cache, new_entries_by_url,
                   sent, cold_cycle, store_error, failed_sources, feed_in, arg, ret,
                   running, add_phases, delivered, completed>>

\* session.get without a timeout: a request that gets no answer never ends
DownloadThumbnailsNoTimeout ==
    /\ pc = "Sorted"
    /\ Requests(all_new_entries, FLOOD_CAP) = {}
    /\ all_new_entries' = _download_thumbnails(all_new_entries, FLOOD_CAP, << >>)
    /\ new_entries_by_url' = [s \in Sources |-> NotRun]
    /\ failed_sources' = {}
    /\ pc' = "Downloaded"
    /\ phases' = phases \o <<"FloodCheck", "ThumbnailFetch">>
    /\ completed' = << >>
    /\ UNCHANGED <<now, timer_due, new_cache, FLOOD_CAP, cache, sent, cold_cycle,
                   store_error, feed_in, arg, ret, running, add_phases, delivered>>

\* line 82; new_entries_by_url went out of scope at line 78
DownloadThumbnails ==
    /\ pc = "Sorted"
    /\ \E outcomes \in [Requests(all_new_entries, FLOOD_CAP) -> DownloadOutcomes] :
          all_new_entries' = _download_thumbnails(all_new_entries, FLOOD_CAP, outcomes)
    /\ new_entries_by_url' = [s \in Sources |-> NotRun]
    /\ failed_sources' = {}
    /\ pc' = "Downloaded"
    /\ phases' = phases \o <<"FloodCheck", "ThumbnailFetch">>
    /\ completed' = << >>
    /\ UNCHANGED <<now, timer_due, new_cache, FLOOD_CAP, cache, sent, cold_cycle,
                   store_error, feed_in, arg, ret, running, add_phases, delivered>>

\* line 83
SendNotifications ==
    /\ pc = "Downloaded"
    /\ \E ids \in [1..Len(all_new_entries) -> {0, 1}],
          fail_at \in 0..Len(all_new_entries) :
          LET r == send_notifications(all_new_entries, FLOOD_CAP, cache, ids, fail_at)
          IN /\ (fail_at # 0 => r.raised)
             /\ cache' = r.cache
             /\ store_error' = (store_error \/ r.raised)
             /\ running' = IF r.raised THEN running - 1 ELSE running
             /\ add_phases' = IF /\ UnderFloodCap(Len(all_new_entries), FLOOD_CAP)
                                 /\ \E i \in DOMAIN ids : ids[i] # 0
                              THEN add_phases \cup {"Dispatch"} ELSE add_phases
             /\ IF r.raised
                THEN /\ pc' = "Raised"
                     /\ all_new_entries' = << >>
                     /\ sent' = << >>
                ELSE /\ pc' = "Dispatched"
                     /\ sent' = r.sent
                     /\ UNCHANGED all_new_entries
    /\ phases' = Append(phases, "Dispatch")
    /\ UNCHANGED <<now, timer_due, new_cache, FLOOD_CAP, new_entries_by_url,
                   cold_cycle, failed_sources, feed_in, arg, ret, delivered, completed>>

\* lines 85-87: return True
Return ==
    /\ pc = "Dispatched"
    /\ pc' = "Idle"
    /\ all_new_entries' = << >>
    /\ sent' = << >>
    /\ running' = running - 1
    /\ phases' = Append(phases, "Idle")
    /\ UNCHANGED <<now, timer_due, new_cache, FLOOD_CAP, cache, new_entries_by_url,
                   cold_cycle, store_error, failed_sources, feed_in, arg, ret,
                   add_phases, delivered, completed>>

Next ==
    \/ Tick
    \/ Start
    \/ TimerTick
    \/ \E s \in Sources : ProcessFeed(s)
    \/ Merge
    \/ Sort
    \/ DownloadThumbnails
    \/ SendNotifications
    \/ Return

Spec == Init /\ [][Next]_vars

\* asyncio.run drives fetch_new until it returns or raises: every await of the
\* cycle ends, a request at the latest at HTTP_REQUEST_TIMEOUT, so a step of a
\* running cycle that can be taken is taken. Nothing obliges the clock or the
\* timer. LiveSpec starts one time unit before the clock's last value.
CycleStep ==
    \/ \E s \in Sources : ProcessFeed(s)
    \/ Merge
    \/ Sort
    \/ DownloadThumbnails
    \/ SendNotifications
    \/ Return

LiveInit == Init /\ now = MaxTime - 1

LiveSpec == LiveInit /\ [][Next]_vars /\ WF_vars(CycleStep)

\* ------------------------------------------- _process_feed as a function
\* FilterSpec applies _process_feed once to every input within the bounds: a
\* response, the store, the clock, the source and the failing seen call. A new
\* cache holds no row when the tasks run.
Stores ==
    {c \in SUBSET [link : Links, publish_date : Dates] :
        \A r1, r2 \in c : r1.link = r2.link => r1 = r2}

FilterInit ==
    /\ now \in 0..MaxTime
    /\ timer_due = now + SEARCH_INTERVAL
    /\ pc = "Filter"
    /\ new_cache \in BOOLEAN
    /\ FLOOD_CAP = 0
    /\ cache \in Stores
    /\ new_cache => cache = {}
    /\ new_entries_by_url = [s \in Sources |-> NotRun]
    /\ all_new_entries = << >>
    /\ sent = << >>
    /\ cold_cycle = new_cache
    /\ store_error = FALSE
    /\ failed_sources = {}
    /\ feed_in \in [source : Sources, response : Responses, fail_at : 0..MaxFeedLen]
    /\ arg = NoArg
    /\ ret = NoArg
    /\ running = 0
    /\ phases = << >>
    /\ add_phases = {}
    /\ delivered = {}
    /\ completed = << >>

FilterStep ==
    /\ pc = "Filter"
    /\ pc' = "Filtered"
    /\ new_entries_by_url' =
          [new_entries_by_url EXCEPT ![feed_in.source] =
              _process_feed(feed_in.response, urls[feed_in.source], now, cache,
                            feed_in.fail_at)]
    /\ UNCHANGED <<now, timer_due, new_cache, FLOOD_CAP, cache, all_new_entries,
                   sent, cold_cycle, store_error, failed_sources, feed_in, arg, ret,
                   running, phases, add_phases, delivered, completed>>

FilterSpec == FilterInit /\ [][FilterStep]_vars

\* ------------------------------------------------- prune_old as a function
\* PruneSpec applies prune_old once to every store, clock value, machine zone
\* and feed zones within the bounds, on a new cache and on an old one (a new
\* cache holds rows when a cold _handle_new_cache was interrupted).
PruneInit ==
    /\ now \in 0..MaxTime
    /\ timer_due = now + SEARCH_INTERVAL
    /\ pc = "Prune"
    /\ new_cache \in BOOLEAN
    /\ FLOOD_CAP = 0
    /\ cache \in Stores
    /\ new_entries_by_url = [s \in Sources |-> NotRun]
    /\ all_new_entries = << >>
    /\ sent = << >>
    /\ cold_cycle = new_cache
    /\ store_error = FALSE
    /\ failed_sources = {}
    /\ feed_in = NoInput
    /\ arg \in [local : Offsets, zone : [Links -> Offsets]]
    /\ ret = NoArg
    /\ running = 0
    /\ phases = << >>
    /\ add_phases = {}
    /\ delivered = {}
    /\ completed = << >>

PruneStep ==
    /\ pc = "Prune"
    /\ pc' = "Pruned"
    /\ cache' = prune_old_of(cache, new_cache, now + arg.local, arg.zone)
    /\ ret' = cache
    /\ UNCHANGED <<now, timer_due, new_cache, FLOOD_CAP, new_entries_by_url,
                   all_new_entries, sent, cold_cycle, store_error, failed_sources,
                   feed_in, arg,
                   running, phases, add_phases, delivered, completed>>

PruneSpec == PruneInit /\ [][PruneStep]_vars

\* ------------------------------------------- the pattern filter as a function
\* PatternSpec runs the loop of _process_feed on one fresh, unseen entry for
\* every title, author and pair of pattern lists below.
Titles == {<<"x", "y">>, <<"y", "x">>, <<"X">>, << >>}
Authors == {<<"x">>, <<"z">>}
Patterns == {<<"x">>, <<"x", "y">>, <<"z">>, <<"?">>, << >>}
PatternLists == SeqsUpTo(Patterns, MaxPatterns)

PatternRaw(a) ==
    [has_keys |-> TRUE, link |-> "a", published |-> now, title |-> a.title,
     has_author |-> a.has_author, author |-> a.author, media_thumbnail |-> << >>]

PatternProfile(a) ==
    [require_patterns |-> a.require, exclude_patterns |-> a.exclude,
     entry_age |-> FALSE, download_thumbnails |-> FALSE]

PatternInit ==
    /\ now = 0
    /\ timer_due = now + SEARCH_INTERVAL
    /\ pc = "Match"
    /\ new_cache = FALSE
    /\ FLOOD_CAP = 0
    /\ cache = {}
    /\ new_entries_by_url = [s \in Sources |-> NotRun]
    /\ all_new_entries = << >>
    /\ sent = << >>
    /\ cold_cycle = FALSE
    /\ store_error = FALSE
    /\ failed_sources = {}
    /\ feed_in = NoInput
    /\ arg \in [require : PatternLists, exclude : PatternLists, title : Titles,
                 has_author : BOOLEAN, author : Authors]
    /\ ret = NoArg
    /\ running = 0
    /\ phases = << >>
    /\ add_phases = {}
    /\ delivered = {}
    /\ completed = << >>

PatternStep ==
    /\ pc = "Match"
    /\ pc' = "Matched"
    /\ ret' = ProcessEntries(<<PatternRaw(arg)>>, 1, << >>, now, cache,
                             PatternProfile(arg), 0)
    /\ UNCHANGED <<now, timer_due, new_cache, FLOOD_CAP, cache, new_entries_by_url,
                   all_new_entries, sent, cold_cycle, store_error, failed_sources,
                   feed_in, arg,
                   running, phases, add_phases, delivered, completed>>

PatternSpec == PatternInit /\ [][PatternStep]_vars

\* ------------------------------------- _resolve_thumbnail_url as a function
\* ThumbnailSpec resolves the thumbnail of one entry whose list of candidates
\* grows by one candidate at a time, and that of the spec's example. The k-th
\* candidate of a list carries the k-th URL, or the empty URL.
UrlNames == <<"1", "2", "3", "4", "5", "6">>
UrlAt(k) == <<"http://img/", UrlNames[k]>>
Dims == {0, 1, 2}

Candidates(k) ==
    {[width |-> w, height |-> h, url |-> u] :
        w \in Dims, h \in Dims, u \in {UrlAt(k), NoUrl}}

ExampleThumbnails ==
    << [width |-> 100, height |-> 100, url |-> <<"a">>],
       [width |-> 50, height |-> 80, url |-> <<"b">>],
       [width |-> 40, height |-> 40, url |-> <<"c">>],
       [width |-> 60, height |-> 30, url |-> <<"d">>] >>

ThumbnailInit ==
    /\ now = 0
    /\ timer_due = now + SEARCH_INTERVAL
    /\ pc = "Resolved"
    /\ new_cache = FALSE
    /\ FLOOD_CAP = 0
    /\ cache = {}
    /\ new_entries_by_url = [s \in Sources |-> NotRun]
    /\ all_new_entries = << >>
    /\ sent = << >>
    /\ cold_cycle = FALSE
    /\ store_error = FALSE
    /\ failed_sources = {}
    /\ feed_in = NoInput
    /\ arg \in [media_thumbnail : {<< >>}, link : Links]
    /\ ret = _resolve_thumbnail_url(arg)
    /\ running = 0
    /\ phases = << >>
    /\ add_phases = {}
    /\ delivered = {}
    /\ completed = << >>

Resolve(thumbnails) ==
    /\ arg' = [arg EXCEPT !.media_thumbnail = thumbnails]
    /\ ret' = _resolve_thumbnail_url(arg')
    /\ UNCHANGED <<now, timer_due, pc, new_cache, FLOOD_CAP, cache,
                   new_entries_by_url, all_new_entries, sent, cold_cycle,
                   store_error, failed_sources, feed_in,
                   running, phases, add_phases, delivered, completed>>

AddCandidate ==
    /\ Len(arg.media_thumbnail) < MaxThumbnails
    /\ arg.media_thumbnail # ExampleThumbnails
    /\ \E c \in Candidates(Len(arg.media_thumbnail) + 1) :
          Resolve(Append(arg.media_thumbnail, c))

ResolveExample ==
    /\ arg.media_thumbnail = << >>
    /\ Resolve(ExampleThumbnails)

ThumbnailNext ==
    \/ AddCandidate
    \/ ResolveExample

ThumbnailSpec == ThumbnailInit /\ [][ThumbnailNext]_vars

\* --------------------------------------- _readable_entry_age as a function
\* A text is the sequence of its pieces: the digits of a number one by one, a
\* word as one piece.
DigitChars == <<"0", "1", "2", "3", "4", "5", "6", "7", "8", "9">>

\* f'{n}' for n >= 0
RECURSIVE Format(_)
Format(n) ==
    IF n < 10 THEN <<DigitChars[n + 1]>>
    ELSE Format(n \div 10) \o <<DigitChars[(n % 10) + 1]>>

\* format_days, lines 176-179; None is the empty text
format_days(days) ==
    IF days > 1 THEN Format(days) \o <<" days">>
    ELSE IF days = 1 THEN Format(days) \o <<" day">>
    ELSE << >>

\* `hours >= 1` for the plural
format_hours_plural_from_one(hours) ==
    IF hours >= 1 THEN Format(hours) \o <<" hrs">>
    ELSE << >>

\* format_hours, lines 180-183
format_hours(hours) ==
    IF hours > 1 THEN Format(hours) \o <<" hrs">>
    ELSE IF hours = 1 THEN Format(hours) \o <<" hr">>
    ELSE << >>

\* ", ".join(parts)
RECURSIVE Join(_, _)
Join(parts, sep) ==
    IF parts = << >> THEN << >>
    ELSE IF Len(parts) = 1 THEN parts[1]
    ELSE parts[1] \o sep \o Join(Tail(parts), sep)

\* time is a timedelta: days and 0 <= seconds < 86400
_readable_entry_age(time) ==
    LET days == time.days
        hours == time.seconds \div 3600
        remainder == time.seconds % 3600
        minutes == remainder \div 60
        both == <<format_days(days), format_hours(hours)>>
        formatted_time_parts == SelectSeq(both, LAMBDA part : part # << >>)
    IN IF formatted_time_parts # << >>
       THEN Join(formatted_time_parts, <<", ">>) \o <<" ago">>
       ELSE Format(minutes) \o <<" mins ago">>

\* AgeSpec formats the age of d days, h hours, m minutes and s seconds for
\* every d up to MaxDays and the hours, minutes and seconds below.
AgeHours == {0, 1, 2, 3, 23}
AgeMinutes == {0, 1, 45, 59}
AgeSeconds == {0, 59}

timedelta(a) == [days |-> a.d, seconds |-> (a.h * 3600) + (a.m * 60) + a.s]

AgeInit ==
    /\ now = 0
    /\ timer_due = now + SEARCH_INTERVAL
    /\ pc = "Format"
    /\ new_cache = FALSE
    /\ FLOOD_CAP = 0
    /\ cache = {}
    /\ new_entries_by_url = [s \in Sources |-> NotRun]
    /\ all_new_entries = << >>
    /\ sent = << >>
    /\ cold_cycle = FALSE
    /\ store_error = FALSE
    /\ failed_sources = {}
    /\ feed_in = NoInput
    /\ arg \in [d : 0..MaxDays, h : AgeHours, m : AgeMinutes, s : AgeSeconds]
    /\ ret = NoArg
    /\ running = 0
    /\ phases = << >>
    /\ add_phases = {}
    /\ delivered = {}
    /\ completed = << >>

AgeStep ==
    /\ pc = "Format"
    /\ pc' = "Formatted"
    /\ ret' = _readable_entry_age(timedelta(arg))
    /\ UNCHANGED <<now, timer_due, new_cache, FLOOD_CAP, cache, new_entries_by_url,
                   all_new_entries, sent, cold_cycle, store_error, failed_sources,
                   feed_in, arg,
                   running, phases, add_phases, delivered, completed>>

AgeSpec == AgeInit /\ [][AgeStep]_vars

\* ================================================================ properties
CountOf(e, seq) == Cardinality({i \in DOMAIN seq : seq[i] = e})

RowsOf(link) == {r \in cache : r.link = link}
HasRow(link) == RowsOf(link) # {}

\* the calls of this cycle that carried an entry, and those the sink accepted
EntryCalls == {i \in DOMAIN sent : ~sent[i].summary}
Accepted == {i \in EntryCalls : sent[i].notification_id # 0}
Rejected == {i \in EntryCalls : sent[i].notification_id = 0}

\* the entries the tasks of this cycle returned
Returned(s) ==
    IF IsException(new_entries_by_url[s]) THEN << >> ELSE new_entries_by_url[s].entries

ReturnedEntries == UNION {{Returned(s)[i] : i \in DOMAIN Returned(s)} : s \in Sources}

RECURSIVE ReturnedCount(_, _)
ReturnedCount(e, S) ==
    IF S = {} THEN 0
    ELSE LET s == CHOOSE x \in S : TRUE
         IN CountOf(e, Returned(s)) + ReturnedCount(e, S \ {s})

\* C1: however often add is called for a link, the store holds one row for it,
\* and HasRow(link) is true once an add for it has completed (after the cold-start
\* merge for every merged entry, after Dispatch for every accepted entry).
C1_AddIdempotent ==
    /\ \A r1, r2 \in cache : r1.link = r2.link => r1 = r2
    /\ \A link \in Links : seen_in(cache, link) <=> HasRow(link)
    /\ (pc = "Merged" /\ cold_cycle) => \A e \in ReturnedEntries : HasRow(e.link)
    /\ pc = "Dispatched" => \A i \in Accepted : HasRow(sent[i].entry.link)

\* add ran twice for one link with two publish dates, and one row is there
C1_Witness ==
    /\ pc = "Dispatched"
    /\ \E i, j \in Accepted :
          /\ i < j
          /\ sent[i].entry.link = sent[j].entry.link
          /\ sent[i].entry.publish_date # sent[j].entry.publish_date
          /\ Cardinality(RowsOf(sent[i].entry.link)) = 1

\* C2 as stated: after Dispatch every accepted entry has its (link, publishDate)
\* in the store and every rejected entry has no row for its link.
C2_AsStated ==
    pc = "Dispatched" =>
        /\ \A i \in Accepted :
              [link |-> sent[i].entry.link,
               publish_date |-> sent[i].entry.publish_date] \in cache
        /\ \A i \in Rejected : ~HasRow(sent[i].entry.link)

\* C2 amended: after a Dispatch that completed, on a warm store a link of the
\* dispatch list has a row iff the sink accepted an entry with that link, and
\* the row carries the publish date of the first accepted entry with the link;
\* in the cold-start cycle every entry of the list has a row whatever the sink
\* answered.
C2_DispatchPersistence ==
    pc = "Dispatched" =>
        /\ ~cold_cycle =>
              \A i \in EntryCalls :
                 LET link == sent[i].entry.link
                     accepted == {j \in Accepted : sent[j].entry.link = link}
                 IN /\ HasRow(link) <=> accepted # {}
                    /\ \A j \in accepted :
                          (\A k \in accepted : j <= k) =>
                             RowsOf(link) =
                                {[link |-> link,
                                  publish_date |-> sent[j].entry.publish_date]}
        /\ cold_cycle => \A i \in EntryCalls : HasRow(sent[i].entry.link)

\* a warm cycle in which the sink took one entry and refused another link
C2_Witness ==
    /\ pc = "Dispatched"
    /\ ~cold_cycle
    /\ \E i \in Accepted, j \in Rejected :
          /\ sent[i].entry.link # sent[j].entry.link
          /\ HasRow(sent[i].entry.link)
          /\ ~HasRow(sent[j].entry.link)

\* C3: after the merge of the cold-start cycle every entry the tasks returned is
\* recorded, and the list for dispatch holds exactly the returned entries whose
\* age is below the search interval.
C3_ColdStart ==
    (pc = "Merged" /\ cold_cycle) =>
        /\ \A e \in ReturnedEntries : HasRow(e.link)
        /\ \A e \in ReturnedEntries :
              CountOf(e, all_new_entries) =
                 IF now - e.publish_date < SEARCH_INTERVAL
                 THEN ReturnedCount(e, Sources) ELSE 0
        /\ \A i \in DOMAIN all_new_entries : all_new_entries[i] \in ReturnedEntries

\* a cold merge that recorded an entry it held back and returned a recent one
C3_Witness ==
    /\ pc = "Merged"
    /\ cold_cycle
    /\ \E e \in ReturnedEntries :
          /\ now - e.publish_date >= SEARCH_INTERVAL
          /\ CountOf(e, all_new_entries) = 0
          /\ HasRow(e.link)
    /\ \E e \in ReturnedEntries :
          /\ now - e.publish_date < SEARCH_INTERVAL
          /\ CountOf(e, all_new_entries) > 0

\* C4 as stated: the list handed to send_notifications has no two entries with
\* one link and no entry with an empty link.
C4_LinksUnique ==
    pc = "Downloaded" =>
        /\ \A i, j \in DOMAIN all_new_entries :
              i # j => all_new_entries[i].link # all_new_entries[j].link
        /\ \A i \in DOMAIN all_new_entries : all_new_entries[i].link # ""

\* C5 as stated: once a store operation of the cycle has raised, the cycle goes
\* no further than the gather and ends with the exception.
C5_StoreErrorFatal == store_error => pc \in {"Fetching", "Raised"}

C7_FloodControl ==
    pc = "Dispatched" =>
        LET N == Len(all_new_entries)
            C == FLOOD_CAP
        IN /\ (C > 0 /\ N > C) => sent = << SummaryCall(N, sent[1].notification_id) >>
           /\ (N <= C \/ C = 0) =>
                 /\ Len(sent) = N
                 /\ \A i \in 1..N :
                       ~sent[i].summary /\ sent[i].entry = all_new_entries[i]

\* more entries than a positive cap went out as one summary
C7_Witness ==
    /\ pc = "Dispatched"
    /\ FLOOD_CAP > 0
    /\ Len(all_new_entries) > FLOOD_CAP
    /\ Len(sent) = 1
    /\ sent[1].summary

\* C8: from the sort on, the list handed to the thumbnail step and to the sink
\* is non-decreasing in publish_date, and the sink is called in that order.
C8_Sorted ==
    /\ pc \in {"Sorted", "Downloaded", "Dispatched"} =>
          \A i, j \in DOMAIN all_new_entries :
             i < j => all_new_entries[i].publish_date <= all_new_entries[j].publish_date
    /\ pc = "Dispatched" =>
          \A i, j \in EntryCalls :
             i < j => sent[i].entry.publish_date <= sent[j].entry.publish_date

\* the merge order was not the date order
C8_Witness ==
    /\ pc = "Sorted"
    /\ ~cold_cycle
    /\ Len(all_new_entries) >= 2
    /\ \E i \in DOMAIN Returned(1), j \in DOMAIN Returned(2) :
          Returned(1)[i].publish_date > Returned(2)[j].publish_date

\* the raw entries of the input of FilterSpec, and what its task returned
RawIn == feed_in.response.entries
Survivors == new_entries_by_url[feed_in.source].entries

\* C9: a raw entry whose age is the search window or more is not among the
\* entries its source returns.
C9_AgeFilter ==
    pc = "Filtered" =>
        \A i \in DOMAIN RawIn :
           (RawIn[i].published >= 0 /\ now - RawIn[i].published >= SEARCH_WINDOW) =>
              ~\E k \in DOMAIN Survivors :
                  /\ Survivors[k].link = RawIn[i].link
                  /\ Survivors[k].publish_date = RawIn[i].published

\* an entry of exactly the window's age, unseen and passing the patterns, was
\* dropped while the entry next to it was returned
C9_Witness ==
    /\ pc = "Filtered"
    /\ Len(Survivors) = 1
    /\ \E i \in DOMAIN RawIn :
          /\ RawIn[i].has_keys
          /\ RawIn[i].published >= 0
          /\ now - RawIn[i].published = SEARCH_WINDOW
          /\ ~HasRow(RawIn[i].link)
          /\ RawIn[i].link = "a"

\* C10: a raw entry whose link has a row in the store when its source is
\* processed is not among the entries its source returns.
C10_SeenFilter ==
    pc = "Filtered" =>
        \A i \in DOMAIN RawIn :
           HasRow(RawIn[i].link) =>
              ~\E k \in DOMAIN Survivors : Survivors[k].link = RawIn[i].link

\* a fresh entry with a seen link, which the patterns would pass, was dropped
\* while the entry next to it was returned
C10_Witness ==
    /\ pc = "Filtered"
    /\ Len(Survivors) = 1
    /\ \E i \in DOMAIN RawIn :
          /\ RawIn[i].has_keys
          /\ RawIn[i].published = now
          /\ HasRow(RawIn[i].link)
          /\ RawIn[i].link = "a"

\* C11 as stated: on a store that is not cold prune_old leaves exactly the rows
\* whose publish date (an instant, in UTC) is not older than the clock minus the
\* search window, and on a cold store it leaves every row.
C11_PruneExact ==
    pc = "Pruned" =>
        cache = IF new_cache THEN ret
                ELSE {r \in ret : ~(r.publish_date < now - SEARCH_WINDOW)}

\* a request of this cycle's gather ran into HTTP_REQUEST_TIMEOUT, the one
\* timeout of the program: asyncio.TimeoutError was raised while fetch_new
\* awaited the tasks
TimeoutFired == \E s \in Sources : new_entries_by_url[s].exc = "TimeoutError"

\* C12 as stated: once the timeout has fired during the wait for the fetch
\* tasks the cycle ends with zero new entries: from the gather to its return it
\* holds no entry for the sink and calls the sink for nothing.
C12_TimeoutShortCircuit ==
    TimeoutFired =>
        /\ all_new_entries = << >>
        /\ sent = << >>

\* C13 as stated: after the thumbnail step on a list that is not flood-capped
\* every entry has a thumbnail path, the downloaded temporary file or the
\* default asset.
C13_ThumbnailFallback ==
    (pc = "Downloaded" /\ UnderFloodCap(Len(all_new_entries), FLOOD_CAP)) =>
        \A i \in DOMAIN all_new_entries :
           all_new_entries[i].thumbnail_path
              \in {TMP_THUMBNAIL_PATH, DEFAULT_THUMBNAIL_PATH}

\* p is a contiguous slice of text
Occurs(p, text) ==
    \E a \in 0..Len(text) : \E b \in a..Len(text) : SubSeq(text, a + 1, b) = p

\* the author the filter looks at
AuthorOfArg == IF arg.has_author THEN arg.author ELSE UnknownAuthor
Hits(ps) ==
    {k \in DOMAIN ps : Occurs(ps[k], arg.title) \/ Occurs(ps[k], AuthorOfArg)}

\* C14: the entry survives the pattern filter iff (there is no require pattern
\* or one of them is a case-sensitive substring of its title or of its author)
\* and (there is no exclude pattern or none of them is such a substring).
C14_PatternFilter ==
    pc = "Matched" =>
        (Len(ret.entries) = 1 <=>
            /\ (arg.require = << >> \/ Hits(arg.require) # {})
            /\ (arg.exclude = << >> \/ Hits(arg.exclude) = {}))

\* both lists are there, the second require pattern is found in the author
\* only, no exclude pattern is found, and the entry was returned
C14_Witness ==
    /\ pc = "Matched"
    /\ Len(arg.require) = 2
    /\ arg.exclude # << >>
    /\ Hits(arg.require) = {2}
    /\ ~Occurs(arg.require[2], arg.title)
    /\ Hits(arg.exclude) = {}
    /\ Len(ret.entries) = 1
    /\ ret.entries[1].title = arg.title

\* the best candidate among the first k of ts (0 when none qualified): candidate
\* k takes over iff its width and height are non-zero and both strictly below
\* those of the best so far
RECURSIVE Best(_, _)
Best(ts, k) ==
    IF k = 0 THEN 0
    ELSE LET b == Best(ts, k - 1)
         IN IF /\ ts[k].width # 0
               /\ ts[k].height # 0
               /\ (b = 0 \/ (ts[k].width < ts[b].width /\ ts[k].height < ts[b].height))
            THEN k ELSE b

FinalBest == Best(arg.media_thumbnail, Len(arg.media_thumbnail))

\* C15 as stated: the result is the URL of the final best, and the favicon of
\* the link's host when no candidate qualified; for the example it is c.
C15_AsStated ==
    pc = "Resolved" =>
        /\ ret = IF FinalBest = 0 THEN Favicon(arg.link)
                 ELSE arg.media_thumbnail[FinalBest].url
        /\ arg.media_thumbnail = ExampleThumbnails => ret = <<"c">>

\* C15 amended: the result is the URL of the final best when that URL is not
\* empty; it is the favicon of the link's host when no candidate qualified or
\* the final best has an empty URL; for the example it is c.
C15_ResolverPick ==
    pc = "Resolved" =>
        /\ ret = IF FinalBest = 0 THEN Favicon(arg.link)
                 ELSE IF arg.media_thumbnail[FinalBest].url = NoUrl
                      THEN Favicon(arg.link)
                      ELSE arg.media_thumbnail[FinalBest].url
        /\ arg.media_thumbnail = ExampleThumbnails => ret = <<"c">>

\* a later candidate beat the best in width only and was passed over
C15_Witness ==
    /\ pc = "Resolved"
    /\ FinalBest # 0
    /\ \E k \in DOMAIN arg.media_thumbnail :
          /\ k > FinalBest
          /\ arg.media_thumbnail[k].height # 0
          /\ arg.media_thumbnail[k].width # 0
          /\ arg.media_thumbnail[k].width < arg.media_thumbnail[FinalBest].width
    /\ ret = arg.media_thumbnail[FinalBest].url
    /\ ret # NoUrl

\* the parts of the claim's string
DayPart == IF arg.d = 1 THEN <<"1", " day">>
           ELSE IF arg.d >= 2 THEN Format(arg.d) \o <<" days">> ELSE << >>
HourPart == IF arg.h = 1 THEN <<"1", " hr">>
            ELSE IF arg.h >= 2 THEN Format(arg.h) \o <<" hrs">> ELSE << >>

\* C16: the age of d days, h hours, m minutes reads 'm mins ago' when d = 0 and
\* h = 0; otherwise the non-zero day part and the non-zero hour part, joined by
\* ', ' when both are there, followed by ' ago'; with the four examples.
C16_AgeFormat ==
    pc = "Formatted" =>
        /\ (arg.d = 0 /\ arg.h = 0) => ret = Format(arg.m) \o <<" mins ago">>
        /\ (arg.d # 0 /\ arg.h = 0) => ret = DayPart \o <<" ago">>
        /\ (arg.d = 0 /\ arg.h # 0) => ret = HourPart \o <<" ago">>
        /\ (arg.d # 0 /\ arg.h # 0) => ret = DayPart \o <<", ">> \o HourPart \o <<" ago">>
        /\ (arg.d = 1 /\ arg.h = 0) => ret = <<"1", " day", " ago">>
        /\ (arg.d = 0 /\ arg.h = 3) => ret = <<"3", " hrs", " ago">>
        /\ (arg.d = 2 /\ arg.h = 1) => ret = <<"2", " days", ", ", "1", " hr", " ago">>
        /\ (arg.d = 0 /\ arg.h = 0 /\ arg.m = 45) => ret = <<"4", "5", " mins ago">>

\* 2 days, 1 hour, 59 minutes and 59 seconds read '2 days, 1 hr ago'
C16_Witness ==
    /\ pc = "Formatted"
    /\ arg = [d |-> 2, h |-> 1, m |-> 59, s |-> 59]
    /\ ret = <<"2", " days", ", ", "1", " hr", " ago">>

\* fetch_new has been entered and has neither returned nor raised
CycleRunning == pc \in {"Fetching", "Merged", "Sorted", "Downloaded", "Dispatched"}

\* C17 as stated: every cycle that starts eventually returns to Idle.
C17_AsStated == CycleRunning ~> (pc = "Idle")

\* C17 amended: every cycle that starts eventually ends: fetch_new returns and
\* the program is Idle, or fetch_new ends with the error a store operation
\* raised.
C17_Termination == CycleRunning ~> (pc = "Idle" \/ (pc = "Raised" /\ store_error))

\* a cycle that dispatched ran to its return: the program is Idle again and
\* the store holds what the cycle recorded
C17_Witness ==
    /\ pc = "Idle"
    /\ cache # {}
    /\ ~new_cache
    /\ ~store_error

PhaseOrder ==
    <<"Pruning", "Fetching", "Merging", "Sort", "FloodCheck", "ThumbnailFetch",
      "Dispatch", "Idle">>

C20_AsStated ==
    /\ (pc = "Fetching" => add_phases = {})
    /\ add_phases \subseteq {"Dispatch"}

\* C20, amended: no add while the fetch tasks run (they only call seen);
\* every add of a cycle is made after the tasks have rejoined, in the
\* Dispatch step or, in the cycle that began with a new cache file, in the
\* merge step (_handle_new_cache).
C20_SingleWriter ==
    /\ (pc = "Fetching" => add_phases = {})
    /\ add_phases \subseteq {"Merging", "Dispatch"}
    /\ ("Merging" \in add_phases => cold_cycle)

\* a cycle that began with a new cache file added in the merge step and
\* again when it dispatched
C20_Witness ==
    /\ pc = "Dispatched"
    /\ add_phases = {"Merging", "Dispatch"}
    /\ cache # {}

\* ------------------------------------------------------------------- C21
\* the program observed over several cycles: the return of fetch_new, with
\* the links the sink accepted in the cycle put on record
ReturnRecorded ==
    /\ pc = "Dispatched"
    /\ pc' = "Idle"
    /\ all_new_entries' = << >>
    /\ sent' = << >>
    /\ running' = running - 1
    /\ phases' = Append(phases, "Idle")
    /\ delivered' = delivered \cup
                    {sent[i].entry.link :
                        i \in {j \in DOMAIN sent : /\ ~sent[j].summary
                                                   /\ sent[j].notification_id # 0}}
    /\ UNCHANGED <<now, timer_due, new_cache, FLOOD_CAP, cache, new_entries_by_url,
                   cold_cycle, store_error, failed_sources, feed_in, arg, ret,
                   add_phases, completed>>

CrossCycleNext ==
    \/ Tick
    \/ Start
    \/ TimerTick
    \/ \E s \in Sources : ProcessFeed(s)
    \/ Merge
    \/ Sort
    \/ DownloadThumbnails
    \/ SendNotifications
    \/ ReturnRecorded

CrossCycleSpec == Init /\ [][CrossCycleNext]_vars

\* C21: a link the sink accepted in an earlier cycle is not in the list a
\* later cycle hands to send_notifications.
C21_CrossCycleUnique ==
    pc \in {"Downloaded", "Dispatched"} =>
        \A i \in DOMAIN all_new_entries : all_new_entries[i].link \notin delivered

\* ------------------------------------------------------------------- C22
\* a raw entry that fails validation, and one that qualifies for its source
Invalid(e) == ~e.has_keys \/ e.published \in {Missing, Unparseable}
Qualifies(e) ==
    /\ ~Invalid(e)
    /\ InWindow(now, e.published)
    /\ ~HasRow(e.link)
    /\ PassesPatterns(profiles[urls[feed_in.source].profile_name], e.title,
                      IF e.has_author THEN e.author ELSE UnknownAuthor)

\* C22: with a working store and an answered request, a feed that holds an
\* entry without title, link or date, or with a date that cannot be parsed,
\* does not fail its source, and every qualifying entry of the feed is
\* returned.
C22_EntryValidation ==
    (/\ pc = "Filtered"
     /\ feed_in.fail_at = 0
     /\ feed_in.response.status = "ok"
     /\ \E i \in DOMAIN RawIn : Invalid(RawIn[i])) =>
        /\ new_entries_by_url[feed_in.source].exc = None
        /\ \A i \in DOMAIN RawIn :
              Qualifies(RawIn[i]) =>
                 \E k \in DOMAIN Survivors :
                    /\ Survivors[k].link = RawIn[i].link
                    /\ Survivors[k].publish_date = RawIn[i].published

\* ------------------------------------------------------------------- C23
\* StoreSpec: the table feed_entries under any sequence of calls of add and
\* prune_old while the clock moves on. arg is the call made last, ret the rows
\* it found.
NoCall == [op |-> "none", link |-> "", publish_date |-> 0]

StoreInit ==
    /\ now \in 0..MaxTime
    /\ timer_due = now + SEARCH_INTERVAL
    /\ pc = "Store"
    /\ new_cache \in BOOLEAN
    /\ FLOOD_CAP = 0
    /\ cache = {}
    /\ new_entries_by_url = [s \in Sources |-> NotRun]
    /\ all_new_entries = << >>
    /\ sent = << >>
    /\ cold_cycle = new_cache
    /\ store_error = FALSE
    /\ failed_sources = {}
    /\ feed_in = NoInput
    /\ arg = NoCall
    /\ ret = {}
    /\ running = 0
    /\ phases = << >>
    /\ add_phases = {}
    /\ delivered = {}
    /\ completed = << >>

StoreUnchanged ==
    UNCHANGED <<timer_due, new_cache, FLOOD_CAP, new_entries_by_url,
                all_new_entries, sent, cold_cycle, store_error, failed_sources,
                feed_in, running, phases, add_phases, delivered, completed>>

\* cache_manager.add(entry)
StoreAdd ==
    /\ \E link \in Links, publish_date \in Dates :
          /\ arg' = [op |-> "add", link |-> link, publish_date |-> publish_date]
          /\ cache' = add_to(cache, arg')
    /\ ret' = cache
    /\ pc' = "Added"
    /\ UNCHANGED now
    /\ StoreUnchanged

\* cache_manager.prune_old()
StorePrune ==
    /\ cache' = prune_old_of(cache, new_cache, now + UTC, UTCStamps)
    /\ arg' = [op |-> "prune_old", link |-> "", publish_date |-> 0]
    /\ ret' = cache
    /\ pc' = "Pruned"
    /\ UNCHANGED now
    /\ StoreUnchanged

StoreTick ==
    /\ now < MaxTime
    /\ now' = now + 1
    /\ arg' = NoCall
    /\ ret' = cache
    /\ pc' = "Store"
    /\ UNCHANGED cache
    /\ StoreUnchanged

StoreNext == StoreAdd \/ StorePrune \/ StoreTick

StoreSpec == StoreInit /\ [][StoreNext]_vars

\* C23: a call leaves every row it found as it was or removes it, so the
\* date stored for a link is never replaced (add for a link that has a row
\* changes nothing), and only prune_old removes a row.
C23_RecordImmutable ==
    /\ \A r \in ret : HasRow(r.link) => r \in cache
    /\ (\E r \in ret : r \notin cache) => pc = "Pruned"
    /\ (pc = "Added" /\ seen_in(ret, arg.link)) => cache = ret

\* add was called for a link whose row holds another date, and the row is
\* as it was
C23_Witness ==
    /\ pc = "Added"
    /\ \E r \in ret : r.link = arg.link /\ r.publish_date # arg.publish_date
    /\ cache = ret

\* ------------------------------------------------------------------- C24
\* GatherSpec: the program with the order in which the tasks of the gather
\* finish put on record, for one setting of the flood cap. A task of the
\* gather, observed:
ProcessFeedRecorded(s) ==
    /\ pc = "Fetching"
    /\ new_entries_by_url[s].exc = Pending
    /\ \E response \in CycleResponses, fail_at \in 0..MaxCycleFeedLen :
          LET r == _process_feed(response, urls[s], now, cache, fail_at)
          IN /\ new_entries_by_url' = [new_entries_by_url EXCEPT ![s] = r]
             /\ store_error' = (store_error \/ r.exc = StoreError)
             /\ failed_sources' = IF response.status = "ok" THEN failed_sources
                                  ELSE failed_sources \cup {s}
    /\ completed' = Append(completed, s)
    /\ UNCHANGED <<now, timer_due, pc, new_cache, FLOOD_CAP, cache,
                   all_new_entries, sent, cold_cycle, feed_in, arg, ret,
                   running, phases, add_phases, delivered>>

GatherInit == Init /\ FLOOD_CAP = 0

GatherNext ==
    \/ Tick
    \/ Start
    \/ TimerTick
    \/ \E s \in Sources : ProcessFeedRecorded(s)
    \/ Merge
    \/ Sort
    \/ DownloadThumbnails
    \/ SendNotifications
    \/ Return

GatherSpec == GatherInit /\ [][GatherNext]_vars

\* the results of the tasks in url order, after the cold-start rule; the
\* place of its i-th entry in a stable sort by date
InUrlOrder ==
    LET all == Returned(1) \o Returned(2)
    IN IF cold_cycle
       THEN SelectSeq(all, LAMBDA e : InInterval(now, e.publish_date))
       ELSE all
Rank(M, i) ==
    1 + Cardinality({j \in DOMAIN M :
                        \/ M[j].publish_date < M[i].publish_date
                        \/ (M[j].publish_date = M[i].publish_date /\ j < i)})

\* C24: the merge and the sort run when every task has finished, and the
\* merged and the sorted list are fixed by the results of the sources alone:
\* the results in url order, sorted by date with ties in url order, whatever
\* the order in which the tasks finished.
C24_RejoinOrder ==
    /\ (pc \in {"Merged", "Sorted"} =>
           /\ \A s \in Sources : new_entries_by_url[s].exc # Pending
           /\ Len(completed) = Cardinality(Sources))
    /\ (pc = "Merged" => all_new_entries = InUrlOrder)
    /\ (pc = "Sorted" =>
           /\ Len(all_new_entries) = Len(InUrlOrder)
           /\ \A i \in DOMAIN InUrlOrder :
                 all_new_entries[Rank(InUrlOrder, i)] = InUrlOrder[i])

\* the task of source 2 finished before the task of source 1, each returned
\* an entry, both of one date, and the sorted list has source 1 first
C24_Witness ==
    /\ pc = "Sorted"
    /\ completed = <<2, 1>>
    /\ Len(Returned(1)) = 1
    /\ Len(Returned(2)) = 1
    /\ Returned(1)[1].publish_date = Returned(2)[1].publish_date
    /\ all_new_entries = Returned(1) \o Returned(2)

\* ------------------------------------------------------------------- C25
\* CandidateSpec: _process_feed on a feed of two fresh, unseen entries under a
\* profile that downloads thumbnails; the first entry carries up to
\* MaxThumbnails descriptors, each of which may have a zero width or height or
\* lack the key, the second carries none.
CandidateDims == {MissingKey, 0, 1, 2}
Descriptors(k) ==
    {[width |-> w, height |-> h, url |-> UrlAt(k)] :
        w \in CandidateDims, h \in CandidateDims}

CandidateRaw(link, thumbnails) ==
    [has_keys |-> TRUE, link |-> link, published |-> now, title |-> <<"x">>,
     has_author |-> FALSE, author |-> << >>, media_thumbnail |-> thumbnails]

CandidateInit ==
    /\ now = 0
    /\ timer_due = now + SEARCH_INTERVAL
    /\ pc = "Candidates"
    /\ new_cache = FALSE
    /\ FLOOD_CAP = 0
    /\ cache = {}
    /\ new_entries_by_url = [s \in Sources |-> NotRun]
    /\ all_new_entries = << >>
    /\ sent = << >>
    /\ cold_cycle = FALSE
    /\ store_error = FALSE
    /\ failed_sources = {}
    /\ feed_in = NoInput
    /\ arg = [media_thumbnail |-> << >>, link |-> "a"]
    /\ ret = [exc |-> Pending, entries |-> << >>]
    /\ running = 0
    /\ phases = << >>
    /\ add_phases = {}
    /\ delivered = {}
    /\ completed = << >>

\* the feed's first entry gets one more descriptor
AddDescriptor ==
    /\ pc = "Candidates"
    /\ Len(arg.media_thumbnail) < MaxThumbnails
    /\ \E d \in Descriptors(Len(arg.media_thumbnail) + 1) :
          arg' = [arg EXCEPT !.media_thumbnail = Append(@, d)]
    /\ UNCHANGED <<now, timer_due, pc, new_cache, FLOOD_CAP, cache,
                   new_entries_by_url, all_new_entries, sent, cold_cycle,
                   store_error, failed_sources, feed_in, ret,
                   running, phases, add_phases, delivered, completed>>

CandidateStep ==
    /\ pc = "Candidates"
    /\ pc' = "Processed"
    /\ ret' = ProcessEntries(<<CandidateRaw(arg.link, arg.media_thumbnail),
                               CandidateRaw("b", << >>)>>,
                             1, << >>, now, cache, profiles.default, 0)
    /\ UNCHANGED <<now, timer_due, new_cache, FLOOD_CAP, cache, new_entries_by_url,
                   all_new_entries, sent, cold_cycle, store_error, failed_sources,
                   feed_in, arg,
                   running, phases, add_phases, delivered, completed>>

CandidateNext == AddDescriptor \/ CandidateStep

CandidateSpec == CandidateInit /\ [][CandidateNext]_vars

\* the descriptors with a width and a height that are not zero, in input order
ValidDescriptor(t) ==
    t.width \notin {MissingKey, 0} /\ t.height \notin {MissingKey, 0}
ValidOnly == SelectSeq(arg.media_thumbnail, ValidDescriptor)

\* C25: descriptors whose width or height is zero or missing leave the entry
\* and its source in place: both entries of the feed are returned, the URL
\* resolved for the first is the URL of no such descriptor, and it is the
\* URL picked among the other descriptors alone (the favicon when they pick
\* none).
C25_InvalidSkipped ==
    pc = "Processed" =>
        /\ ret.exc = None
        /\ Len(ret.entries) = 2
        /\ \A k \in DOMAIN arg.media_thumbnail :
              ~ValidDescriptor(arg.media_thumbnail[k]) =>
                 ret.entries[1].thumbnail_url # arg.media_thumbnail[k].url
        /\ ret.entries[1].thumbnail_url =
              IF Best(ValidOnly, Len(ValidOnly)) = 0 THEN Favicon(arg.link)
              ELSE ValidOnly[Best(ValidOnly, Len(ValidOnly))].url

\* ------------------------------------------------------------------- C26
\* UrlsSpec: Config._parse_urls on one line of the urls file. A line is what
\* line.split(' ') and strip make of it: the strings between the blanks, each
\* a sequence of pieces of text (two blanks in a row give an empty string).
StartsWith(string, piece) == Len(string) > 0 /\ string[1] = piece

UrlStrings == {<<"http", "://one">>, <<"http", "s://two">>, <<"ftp", "://three">>}
Words ==
    {<<"#">>, <<"#", "news">>, <<"news">>, <<"default">>, <<"other">>, << >>}
Lines == {<<u>> \o w : u \in UrlStrings, w \in SeqsUpTo(Words, MaxWords)}

\* string in self.profiles
InProfiles(string) == Len(string) = 1 /\ string[1] \in DOMAIN profiles

\* the dictionary {} that url_data starts as
EmptyDict == << >>

\* lines 175-204: what is appended to self.urls for a line that starts with
\* 'http'; the first string after the URL decides, every branch ends in break
url_data_of(strings) ==
    LET url == strings[1]
    IN IF Len(strings) = 1 THEN EmptyDict
       ELSE LET string == strings[2]
            IN IF string = <<"#">> \/ StartsWith(string, "#")
               THEN [profile_name |-> "default", url |-> url]
               ELSE IF InProfiles(string) /\ string # <<"default">>
                    THEN [profile_name |-> string[1], url |-> url]
                    ELSE [profile_name |-> "default", url |-> url]

UrlsInit ==
    /\ now = 0
    /\ timer_due = now + SEARCH_INTERVAL
    /\ pc = "Line"
    /\ new_cache = FALSE
    /\ FLOOD_CAP = 0
    /\ cache = {}
    /\ new_entries_by_url = [s \in Sources |-> NotRun]
    /\ all_new_entries = << >>
    /\ sent = << >>
    /\ cold_cycle = FALSE
    /\ store_error = FALSE
    /\ failed_sources = {}
    /\ feed_in = NoInput
    /\ arg \in Lines
    /\ ret = NoArg
    /\ running = 0
    /\ phases = << >>
    /\ add_phases = {}
    /\ delivered = {}
    /\ completed = << >>

UrlsUnchanged ==
    UNCHANGED <<now, timer_due, new_cache, FLOOD_CAP, cache, new_entries_by_url,
                all_new_entries, sent, cold_cycle, store_error, failed_sources,
                feed_in, arg, running, phases, add_phases, delivered, completed>>

\* line 174 holds: the line's url_data is appended to self.urls
ParseLine ==
    /\ pc = "Line"
    /\ StartsWith(arg[1], "http")
    /\ pc' = "Appended"
    /\ ret' = url_data_of(arg)
    /\ UrlsUnchanged

\* line 174 fails: the line is passed over
SkipLine ==
    /\ pc = "Line"
    /\ ~StartsWith(arg[1], "http")
    /\ pc' = "Skipped"
    /\ UNCHANGED ret
    /\ UrlsUnchanged

UrlsNext == ParseLine \/ SkipLine

UrlsSpec == UrlsInit /\ [][UrlsNext]_vars

\* C26: what a line beginning with 'http' adds to the URL list has the
\* line's URL as its url and a profile_name that is a key of the profiles,
\* whatever follows the URL on the line.
C26_FeedSource ==
    pc = "Appended" =>
        /\ DOMAIN ret = {"profile_name", "url"}
        /\ ret.url = arg[1]
        /\ ret.profile_name \in DOMAIN profiles

\* ------------------------------------------------------------------- C27
\* C27: config.new_cache, once clear, stays clear; it is clear after every
\* merge that completed, also one that merged nothing, and only such a merge
\* clears it; a cycle that begins with the flag clear prunes the store and its
\* merge hands on every returned entry, whatever its age; a cycle that ends
\* before the merge leaves the flag as it was.
C27_ColdOnce ==
    [][/\ (~new_cache => ~new_cache')
       /\ (pc' = "Merged" => ~new_cache')
       /\ (new_cache /\ ~new_cache' => pc = "Fetching" /\ pc' = "Merged")
       /\ (pc \in {"Start", "Idle"} /\ pc' = "Fetching" /\ ~new_cache =>
              cache' = {r \in cache : r.publish_date >= now - SEARCH_WINDOW})
       /\ (pc = "Fetching" /\ pc' = "Merged" /\ ~new_cache =>
              all_new_entries' = Returned(1) \o Returned(2))
       /\ (pc \in {"Start", "Idle"} /\ pc' = "Raised" => new_cache' = new_cache)
      ]_vars

\* the cycle that began with a new cache file got no entry from any source,
\* finished its merge, and the flag is clear
C27_Witness ==
    /\ pc = "Merged"
    /\ cold_cycle
    /\ ~new_cache
    /\ ReturnedEntries = {}
    /\ cache = {}

\* ------------------------------------------------------------------- C28
\* the list handed to send_notifications is over a positive cap
FloodCapped == FLOOD_CAP > 0 /\ Len(all_new_entries) > FLOOD_CAP

====
